---- MODULE Spec2Model ----
(***************************************************************************)
(* Key-space codec of the raft store (src/raftstore/store/keys.rs).        *)
(*                                                                         *)
(* A key is a sequence of bytes (0..255) compared in unsigned              *)
(* lexicographic order.  TLC integers are 32 bits wide, so a u64 is kept   *)
(* at full width as four 16-bit limbs, most significant limb first; the    *)
(* big-endian write splits every limb into its high and low byte and the   *)
(* big-endian read multiplies them back.                                   *)
(***************************************************************************)
EXTENDS Integers, Sequences, FiniteSets, TLC

VARIABLES enc_fn, in_region_id, in_log_index, in_user_key, in_region, out,
          key, edits, dec_fn, ret

vars == <<enc_fn, in_region_id, in_log_index, in_user_key, in_region, out,
          key, edits, dec_fn, ret>>

----------------------------------------------------------------------------
(* Bounds of the model *)

\* longest user key / region boundary key handed to the data codec
MaxKeyLen == 2
\* largest number of peers of a region
MaxPeers == 1
\* how many times the caller may edit an encoded key before decoding it
MaxEdits == 2

----------------------------------------------------------------------------
(* Bytes and 64-bit unsigned integers *)

\* a limb is one of 0 .. LimbBase - 1
LimbBase == 256 * 256

\* the u64 with the four 16-bit limbs a (most significant), b, c, d
U64Of(a, b, c, d) == <<a, b, c, d>>

U64Max == U64Of(LimbBase - 1, LimbBase - 1, LimbBase - 1, LimbBase - 1)

\* numeric order of two u64 values: -1, 0 or 1
U64Cmp(x, y) ==
    LET diff == {i \in 1..4 : x[i] # y[i]}
    IN  IF diff = {} THEN 0
        ELSE LET i == CHOOSE j \in diff : \A k \in diff : j <= k
             IN  IF x[i] < y[i] THEN -1 ELSE 1

U64Less(x, y) == U64Cmp(x, y) = -1

\* mem::size_of::<u64>() and mem::size_of::<u8>()
U64Size == 8
U8Size == 1

\* writes with the bytes of every limb swapped, least significant limb first
write_u64_LittleEndian(v) ==
    <<v[4] % 256, v[4] \div 256, v[3] % 256, v[3] \div 256,
      v[2] % 256, v[2] \div 256, v[1] % 256, v[1] \div 256>>

\* key.write_u64::<BigEndian>(v): the 8 bytes appended to the buffer
write_u64_BigEndian(v) ==
    <<v[1] \div 256, v[1] % 256, v[2] \div 256, v[2] % 256,
      v[3] \div 256, v[3] % 256, v[4] \div 256, v[4] % 256>>

\* BigEndian::read_u64(buf) on the first 8 bytes of buf
read_u64_BigEndian(buf) ==
    U64Of(buf[1] * 256 + buf[2], buf[3] * 256 + buf[4],
          buf[5] * 256 + buf[6], buf[7] * 256 + buf[8])

\* the slice &key[from..to] with 0-based, end-exclusive bounds
Slice(k, from, to) == SubSeq(k, from + 1, to)

\* the slice &key[from..]
SliceFrom(k, from) == SubSeq(k, from + 1, Len(k))

\* key.starts_with(prefix)
starts_with(k, prefix) ==
    /\ Len(prefix) <= Len(k)
    /\ \A i \in 1..Len(prefix) : k[i] = prefix[i]

\* lhs.partial_cmp(&rhs) on byte slices: unsigned lexicographic order
KeyCmp(a, b) ==
    LET m == IF Len(a) < Len(b) THEN Len(a) ELSE Len(b)
        diff == {i \in 1..m : a[i] # b[i]}
    IN  IF diff = {}
        THEN IF Len(a) < Len(b) THEN -1 ELSE IF Len(a) > Len(b) THEN 1 ELSE 0
        ELSE LET i == CHOOSE j \in diff : \A k \in diff : j <= k
             IN  IF a[i] < b[i] THEN -1 ELSE 1

KeyLess(a, b) == KeyCmp(a, b) = -1

KeyLessEq(a, b) == KeyCmp(a, b) # 1

----------------------------------------------------------------------------
(* Namespace constants *)

MIN_KEY == <<>>
MAX_KEY == <<255>>
EMPTY_KEY == <<>>

LOCAL_PREFIX == 1
LOCAL_MIN_KEY == <<LOCAL_PREFIX>>
LOCAL_MAX_KEY == <<LOCAL_PREFIX + 1>>

DATA_PREFIX == 122
DATA_PREFIX_KEY == <<DATA_PREFIX>>
DATA_MIN_KEY == <<DATA_PREFIX>>
DATA_MAX_KEY == <<DATA_PREFIX + 1>>

STORE_IDENT_KEY == <<LOCAL_PREFIX, 1>>
REGION_RAFT_PREFIX == 2
REGION_RAFT_PREFIX_KEY == <<LOCAL_PREFIX, REGION_RAFT_PREFIX>>
REGION_META_PREFIX == 3
REGION_META_PREFIX_KEY == <<LOCAL_PREFIX, REGION_META_PREFIX>>
REGION_META_MIN_KEY == <<LOCAL_PREFIX, REGION_META_PREFIX>>
REGION_META_MAX_KEY == <<LOCAL_PREFIX, REGION_META_PREFIX + 1>>

RAFT_LOG_SUFFIX == 1
RAFT_STATE_SUFFIX == 2
APPLY_STATE_SUFFIX == 3

REGION_STATE_SUFFIX == 1

----------------------------------------------------------------------------
(* Results: Ok(value), Err(InvalidKey) of a decoder, a failed assertion *)

\* a result is the pair of its tag and its value
Ok(v) == <<"Ok", v>>
Err == <<"Err", <<>>>>
Panic == <<"Panic", <<>>>>

Tag(res) == res[1]
Val(res) == res[2]

IsOk(res) == Tag(res) = "Ok"
IsErr(res) == Tag(res) = "Err"
IsPanic(res) == Tag(res) = "Panic"

----------------------------------------------------------------------------
(* Region-raft key codec *)

store_ident_key == STORE_IDENT_KEY

\* the suffix byte written before the region id
make_region_id_key_SuffixFirst(region_id, suffix) ==
    (REGION_RAFT_PREFIX_KEY \o <<suffix>>) \o write_u64_BigEndian(region_id)

make_region_id_key(region_id, suffix) ==
    (REGION_RAFT_PREFIX_KEY \o write_u64_BigEndian(region_id)) \o <<suffix>>

region_raft_prefix(region_id) ==
    REGION_RAFT_PREFIX_KEY \o write_u64_BigEndian(region_id)

region_raft_prefix_len == Len(REGION_RAFT_PREFIX_KEY) + U64Size + 1

\* the log index written little-endian
raft_log_key_LittleEndianIndex(region_id, log_index) ==
    make_region_id_key(region_id, RAFT_LOG_SUFFIX) \o write_u64_LittleEndian(log_index)

raft_log_key(region_id, log_index) ==
    make_region_id_key(region_id, RAFT_LOG_SUFFIX) \o write_u64_BigEndian(log_index)

raft_state_key(region_id) == make_region_id_key(region_id, RAFT_STATE_SUFFIX)

apply_state_key(region_id) == make_region_id_key(region_id, APPLY_STATE_SUFFIX)

raft_log_prefix(region_id) == make_region_id_key(region_id, RAFT_LOG_SUFFIX)

\* a raft_log_index that also checks the prefix and the suffix byte
raft_log_index_Strict(k) ==
    LET suffix_idx == Len(REGION_RAFT_PREFIX_KEY) + U64Size
        expect_key_len == suffix_idx + U8Size + U64Size
    IN  IF \/ Len(k) # expect_key_len
           \/ ~starts_with(k, REGION_RAFT_PREFIX_KEY)
           \/ k[suffix_idx + 1] # RAFT_LOG_SUFFIX
        THEN Err
        ELSE Ok(read_u64_BigEndian(SliceFrom(k, expect_key_len - U64Size)))

raft_log_index(k) ==
    LET expect_key_len == Len(REGION_RAFT_PREFIX_KEY) + U64Size + U8Size + U64Size
    IN  IF Len(k) # expect_key_len
        THEN Err
        ELSE Ok(read_u64_BigEndian(SliceFrom(k, expect_key_len - U64Size)))

\* a decode_raft_log_key that does not look at the suffix byte
decode_raft_log_key_NoSuffixCheck(k) ==
    LET suffix_idx == Len(REGION_RAFT_PREFIX_KEY) + U64Size
        expect_key_len == suffix_idx + U8Size + U64Size
    IN  IF Len(k) # expect_key_len \/ ~starts_with(k, REGION_RAFT_PREFIX_KEY)
        THEN Err
        ELSE Ok(<<read_u64_BigEndian(Slice(k, Len(REGION_RAFT_PREFIX_KEY), suffix_idx)),
                  read_u64_BigEndian(SliceFrom(k, suffix_idx + U8Size))>>)

\* the conditions of the || chain are evaluated left to right, so key[suffix_idx]
\* is read only when the length is the expected one
decode_raft_log_key(k) ==
    LET suffix_idx == Len(REGION_RAFT_PREFIX_KEY) + U64Size
        expect_key_len == suffix_idx + U8Size + U64Size
    IN  IF \/ Len(k) # expect_key_len
           \/ ~starts_with(k, REGION_RAFT_PREFIX_KEY)
           \/ k[suffix_idx + 1] # RAFT_LOG_SUFFIX
        THEN Err
        ELSE Ok(<<read_u64_BigEndian(Slice(k, Len(REGION_RAFT_PREFIX_KEY), suffix_idx)),
                  read_u64_BigEndian(SliceFrom(k, suffix_idx + U8Size))>>)

----------------------------------------------------------------------------
(* Region-meta key codec *)

make_region_meta_key(region_id, suffix) ==
    (REGION_META_PREFIX_KEY \o write_u64_BigEndian(region_id)) \o <<suffix>>

\* a decode_region_meta_key that accepts only the known suffix
decode_region_meta_key_KnownSuffixOnly(k) ==
    IF Len(REGION_META_PREFIX_KEY) + U64Size + U8Size # Len(k)
    THEN Err
    ELSE IF ~starts_with(k, REGION_META_PREFIX_KEY) \/ k[Len(k)] # REGION_STATE_SUFFIX
    THEN Err
    ELSE Ok(<<read_u64_BigEndian(Slice(k, Len(REGION_META_PREFIX_KEY),
                                       Len(REGION_META_PREFIX_KEY) + U64Size)),
              k[Len(k)]>>)

\* a decode_region_meta_key that does not check the prefix
decode_region_meta_key_NoPrefixCheck(k) ==
    IF Len(REGION_META_PREFIX_KEY) + U64Size + U8Size # Len(k)
    THEN Err
    ELSE Ok(<<read_u64_BigEndian(Slice(k, Len(REGION_META_PREFIX_KEY),
                                       Len(REGION_META_PREFIX_KEY) + U64Size)),
              k[Len(k)]>>)

decode_region_meta_key(k) ==
    IF Len(REGION_META_PREFIX_KEY) + U64Size + U8Size # Len(k)
    THEN Err
    ELSE IF ~starts_with(k, REGION_META_PREFIX_KEY)
    THEN Err
    ELSE Ok(<<read_u64_BigEndian(Slice(k, Len(REGION_META_PREFIX_KEY),
                                       Len(REGION_META_PREFIX_KEY) + U64Size)),
              k[Len(k)]>>)

region_meta_prefix(region_id) ==
    REGION_META_PREFIX_KEY \o write_u64_BigEndian(region_id)

region_state_key(region_id) == make_region_meta_key(region_id, REGION_STATE_SUFFIX)

----------------------------------------------------------------------------
(* Data key codec and region boundary codec *)

validate_data_key(k) == starts_with(k, DATA_PREFIX_KEY)

\* the user key stored without the data prefix
data_key_NoPrefix(k) == k

data_key(k) == DATA_PREFIX_KEY \o k

\* an origin_key without the assertion, slicing whatever it is given
origin_key_Unchecked(k) ==
    Ok(IF Len(k) >= Len(DATA_PREFIX_KEY) THEN SliceFrom(k, Len(DATA_PREFIX_KEY)) ELSE <<>>)

origin_key(k) ==
    IF ~validate_data_key(k)
    THEN Panic
    ELSE Ok(SliceFrom(k, Len(DATA_PREFIX_KEY)))

\* a data_end_key that encodes the empty end key like any other
data_end_key_NoEmptyCase(region_end_key) == data_key(region_end_key)

data_end_key(region_end_key) ==
    IF region_end_key = <<>>
    THEN DATA_MAX_KEY
    ELSE data_key(region_end_key)

\* kvproto::metapb::Region, as far as this module reads it: the triple of the
\* number of peers, the start key and the end key
Region(peers, start_key, end_key) == <<peers, start_key, end_key>>

get_peers(region) == region[1]
get_start_key(region) == region[2]
get_end_key(region) == region[3]

enc_start_key(region) ==
    IF get_peers(region) = 0
    THEN Panic
    ELSE Ok(data_key(get_start_key(region)))

enc_end_key(region) ==
    IF get_peers(region) = 0
    THEN Panic
    ELSE Ok(data_end_key(get_end_key(region)))

----------------------------------------------------------------------------
(* Inputs *)

U64Zero == U64Of(0, 0, 0, 0)

\* 0, 1, 1024, 0x0102030405060708 and u64::MAX
U64Samples ==
    {U64Zero, U64Of(0, 0, 0, 1), U64Of(0, 0, 0, 1024),
     U64Of(258, 772, 1286, 1800), U64Max}

RegionIds == U64Samples

LogIndexes == U64Samples

\* the bytes user keys are made of
UserBytes == {0, 1, 255}

RECURSIVE KeysUpTo(_)
KeysUpTo(n) ==
    IF n = 0 THEN {<<>>}
    ELSE LET shorter == KeysUpTo(n - 1)
         IN  shorter \cup {Append(k, b) : k \in {s \in shorter : Len(s) = n - 1},
                                          b \in UserBytes}

UserKeys == KeysUpTo(MaxKeyLen)

\* start and end keys of the regions handed to the boundary codec
BoundaryKeys == {k \in UserKeys : Len(k) <= 1}

Regions ==
    {Region(n, s, e) : n \in 0..MaxPeers, s \in BoundaryKeys, e \in BoundaryKeys}

NoRegion == Region(0, <<>>, <<>>)

\* the bytes a caller overwrites a key byte with
EditBytes == {0, LOCAL_PREFIX, REGION_RAFT_PREFIX, REGION_META_PREFIX, DATA_PREFIX, 255}

\* 0-based offsets a caller overwrites: the two prefix bytes and the suffix byte
\* of a region key
EditOffsets == {0, 1, Len(REGION_RAFT_PREFIX_KEY) + U64Size}

\* the integers a caller appends to a key
AppendSamples == {U64Of(0, 0, 0, 2), U64Max}

----------------------------------------------------------------------------
(* State *)

\* enc_fn: the last encoder called ("none" before the first call);
\* in_region_id, in_log_index, in_user_key, in_region: its arguments (those it
\* takes);
\* out: its result; key: the buffer holding the encoded key; edits: how often
\* the caller has edited the buffer since; dec_fn: the last function called
\* on the buffer; ret: its result.

NoResult == <<"None", <<>>>>

\* an encoder call returns: its key is in the buffer (an aborted call leaves
\* the buffer empty)
Encoded(r, i, k, reg, res) ==
    /\ in_region_id' = r
    /\ in_log_index' = i
    /\ in_user_key' = k
    /\ in_region' = reg
    /\ out' = res
    /\ key' = IF IsOk(res) THEN Val(res) ELSE EMPTY_KEY
    /\ edits' = 0
    /\ dec_fn' = "none"
    /\ ret' = NoResult

Decoded(res) ==
    /\ ret' = res
    /\ UNCHANGED <<enc_fn, in_region_id, in_log_index, in_user_key, in_region, out,
                   key, edits>>

Init ==
    /\ enc_fn = "none"
    /\ in_region_id = U64Zero
    /\ in_log_index = U64Zero
    /\ in_user_key = <<>>
    /\ in_region = NoRegion
    /\ out = NoResult
    /\ key = EMPTY_KEY
    /\ edits = 0
    /\ dec_fn = "none"
    /\ ret = NoResult

----------------------------------------------------------------------------
(* Encoder calls *)

StoreIdentKey ==
    /\ enc_fn' = "store_ident_key"
    /\ Encoded(U64Zero, U64Zero, <<>>, NoRegion, Ok(store_ident_key))

RegionRaftPrefix ==
    \E r \in RegionIds :
        /\ enc_fn' = "region_raft_prefix"
        /\ Encoded(r, U64Zero, <<>>, NoRegion, Ok(region_raft_prefix(r)))

RaftLogPrefix ==
    \E r \in RegionIds :
        /\ enc_fn' = "raft_log_prefix"
        /\ Encoded(r, U64Zero, <<>>, NoRegion, Ok(raft_log_prefix(r)))

RaftLogKey ==
    \E r \in RegionIds, i \in LogIndexes :
        /\ enc_fn' = "raft_log_key"
        /\ Encoded(r, i, <<>>, NoRegion, Ok(raft_log_key(r, i)))

RaftStateKey ==
    \E r \in RegionIds :
        /\ enc_fn' = "raft_state_key"
        /\ Encoded(r, U64Zero, <<>>, NoRegion, Ok(raft_state_key(r)))

ApplyStateKey ==
    \E r \in RegionIds :
        /\ enc_fn' = "apply_state_key"
        /\ Encoded(r, U64Zero, <<>>, NoRegion, Ok(apply_state_key(r)))

RegionMetaPrefix ==
    \E r \in RegionIds :
        /\ enc_fn' = "region_meta_prefix"
        /\ Encoded(r, U64Zero, <<>>, NoRegion, Ok(region_meta_prefix(r)))

RegionStateKey ==
    \E r \in RegionIds :
        /\ enc_fn' = "region_state_key"
        /\ Encoded(r, U64Zero, <<>>, NoRegion, Ok(region_state_key(r)))

DataKey ==
    \E k \in UserKeys :
        /\ enc_fn' = "data_key"
        /\ Encoded(U64Zero, U64Zero, k, NoRegion, Ok(data_key(k)))

DataEndKey ==
    \E k \in UserKeys :
        /\ enc_fn' = "data_end_key"
        /\ Encoded(U64Zero, U64Zero, k, NoRegion, Ok(data_end_key(k)))

EncStartKey ==
    \E reg \in Regions :
        /\ enc_fn' = "enc_start_key"
        /\ Encoded(U64Zero, U64Zero, <<>>, reg, enc_start_key(reg))

EncEndKey ==
    \E reg \in Regions :
        /\ enc_fn' = "enc_end_key"
        /\ Encoded(U64Zero, U64Zero, <<>>, reg, enc_end_key(reg))

----------------------------------------------------------------------------
(* The caller edits the buffer *)

Edited(k) ==
    /\ key' = k
    /\ edits' = edits + 1
    /\ dec_fn' = "none"
    /\ ret' = NoResult
    /\ UNCHANGED <<enc_fn, in_region_id, in_log_index, in_user_key, in_region, out>>

\* key[off] = b
SetByte ==
    \E off \in EditOffsets, b \in EditBytes :
        /\ edits < MaxEdits
        /\ off < Len(key)
        /\ key[off + 1] # b
        /\ Edited([key EXCEPT ![off + 1] = b])

\* key.pop()
Truncate ==
    /\ edits < MaxEdits
    /\ Len(key) > 0
    /\ Edited(SubSeq(key, 1, Len(key) - 1))

\* key.write_u64::<BigEndian>(v)
AppendU64 ==
    \E v \in AppendSamples :
        /\ edits < MaxEdits
        /\ Edited(key \o write_u64_BigEndian(v))

----------------------------------------------------------------------------
(* Calls on the buffer *)

RaftLogIndex ==
    /\ dec_fn' = "raft_log_index"
    /\ Decoded(raft_log_index(key))

DecodeRaftLogKey ==
    /\ dec_fn' = "decode_raft_log_key"
    /\ Decoded(decode_raft_log_key(key))

DecodeRegionMetaKey ==
    /\ dec_fn' = "decode_region_meta_key"
    /\ Decoded(decode_region_meta_key(key))

ValidateDataKey ==
    /\ dec_fn' = "validate_data_key"
    /\ Decoded(Ok(validate_data_key(key)))

OriginKey ==
    /\ dec_fn' = "origin_key"
    /\ Decoded(origin_key(key))

----------------------------------------------------------------------------
(* Specifications *)

\* encoding: every encoder, and the data codec's calls on the encoded key
Next ==
    \/ StoreIdentKey
    \/ RegionRaftPrefix
    \/ RaftLogPrefix
    \/ RaftLogKey
    \/ RaftStateKey
    \/ ApplyStateKey
    \/ RegionMetaPrefix
    \/ RegionStateKey
    \/ DataKey
    \/ DataEndKey
    \/ EncStartKey
    \/ EncEndKey
    \/ ValidateDataKey
    \/ OriginKey

Spec == Init /\ [][Next]_vars

\* decoding: local keys are encoded, edited by the caller and decoded
NextDecode ==
    \/ StoreIdentKey
    \/ RegionRaftPrefix
    \/ RaftLogPrefix
    \/ RaftLogKey
    \/ RaftStateKey
    \/ ApplyStateKey
    \/ RegionMetaPrefix
    \/ RegionStateKey
    \/ SetByte
    \/ Truncate
    \/ AppendU64
    \/ RaftLogIndex
    \/ DecodeRaftLogKey
    \/ DecodeRegionMetaKey

SpecDecode == Init /\ [][NextDecode]_vars

----------------------------------------------------------------------------
(* Properties of the encoders, checked under Spec *)

LocalEncoders ==
    {"store_ident_key", "region_raft_prefix", "raft_log_prefix", "raft_log_key",
     "raft_state_key", "apply_state_key", "region_meta_prefix", "region_state_key"}

\* the encoders whose key lies under region_raft_prefix(region_id)
RaftScoped == {"raft_log_prefix", "raft_log_key", "raft_state_key", "apply_state_key"}

\* the encoders of the region-meta codec
MetaScoped == {"region_meta_prefix", "region_state_key"}

\* order of the pairs (r1, i1) and (r2, i2), region id first
PairCmp(r1, i1, r2, i2) ==
    IF U64Cmp(r1, r2) # 0 THEN U64Cmp(r1, r2) ELSE U64Cmp(i1, i2)

\* byte order of two user keys, written out on the bytes
UserKeyLess(a, b) ==
    \/ Len(a) < Len(b) /\ \A i \in 1..Len(a) : a[i] = b[i]
    \/ \E i \in 1..Len(a) :
        /\ i <= Len(b)
        /\ a[i] < b[i]
        /\ \A j \in 1..(i - 1) : a[j] = b[j]

\* C1: namespace ordering.  Every key a local encoder returns is >= LOCAL_MIN_KEY,
\* < LOCAL_MAX_KEY and strictly below data_key(k) for every user key k (the empty
\* one included); every key data_key returns is >= DATA_MIN_KEY, < DATA_MAX_KEY
\* and < MAX_KEY.
C1_NamespaceOrdering ==
    /\ enc_fn \in LocalEncoders =>
        /\ IsOk(out)
        /\ KeyLessEq(LOCAL_MIN_KEY, Val(out))
        /\ KeyLess(Val(out), LOCAL_MAX_KEY)
        /\ \A k \in UserKeys : KeyLess(Val(out), data_key(k))
    /\ enc_fn = "data_key" =>
        /\ IsOk(out)
        /\ KeyLessEq(DATA_MIN_KEY, Val(out))
        /\ KeyLess(Val(out), DATA_MAX_KEY)
        /\ KeyLess(Val(out), MAX_KEY)
        /\ \A r \in RegionIds, i \in LogIndexes :
            KeyLess(raft_log_key(r, i), Val(out))

\* the largest local key of the model has been encoded
C1_Witness ==
    /\ enc_fn = "raft_log_key"
    /\ in_region_id = U64Max
    /\ in_log_index = U64Max
    /\ Len(Val(out)) = 19

\* C7: order preservation.  For region ids a < b every RegionRaft-scoped key of a
\* sorts strictly before region_raft_prefix(b) and region_state_key(a) strictly
\* before region_meta_prefix(b); raft_log_key(r1, i1) compares to
\* raft_log_key(r2, i2) exactly as the pair (r1, i1) compares to (r2, i2).
C7_OrderPreserved ==
    /\ enc_fn \in RaftScoped =>
        \A b \in RegionIds :
            U64Less(in_region_id, b) => KeyLess(Val(out), region_raft_prefix(b))
    /\ enc_fn = "region_state_key" =>
        \A b \in RegionIds :
            U64Less(in_region_id, b) => KeyLess(Val(out), region_meta_prefix(b))
    /\ enc_fn = "raft_log_key" =>
        \A r2 \in RegionIds, i2 \in LogIndexes :
            KeyCmp(Val(out), raft_log_key(r2, i2))
                = PairCmp(in_region_id, in_log_index, r2, i2)

\* a log key of region 1 whose index has a zero low byte: a byte order other
\* than big-endian would sort it before index 1
C7_Witness ==
    /\ enc_fn = "raft_log_key"
    /\ in_region_id = U64Of(0, 0, 0, 1)
    /\ in_log_index = U64Of(0, 0, 0, 1024)
    /\ KeyLess(raft_log_key(in_region_id, U64Of(0, 0, 0, 1)), Val(out))

\* C8: prefix containment.  region_raft_prefix(r) is a byte prefix of
\* raft_log_prefix(s), raft_log_key(s, i), raft_state_key(s) and apply_state_key(s)
\* exactly when r = s; region_meta_prefix(r) is a prefix of region_state_key(s)
\* exactly when r = s; region_raft_prefix(r) is never a prefix of a RegionMeta key.
C8_PrefixContainment ==
    /\ enc_fn \in RaftScoped =>
        \A r \in RegionIds :
            starts_with(Val(out), region_raft_prefix(r)) <=> (r = in_region_id)
    /\ enc_fn = "region_state_key" =>
        \A r \in RegionIds :
            starts_with(Val(out), region_meta_prefix(r)) <=> (r = in_region_id)
    /\ enc_fn \in MetaScoped =>
        \A r \in RegionIds : ~starts_with(Val(out), region_raft_prefix(r))

\* the apply-state key of the largest region id has been encoded
C8_Witness ==
    /\ enc_fn = "apply_state_key"
    /\ in_region_id = U64Max
    /\ Len(Val(out)) = 11
    /\ starts_with(Val(out), region_raft_prefix(U64Max))

\* C9: data_end_key(e) is DATA_MAX_KEY ([0x7B]) for the empty e and data_key(e)
\* otherwise, and it is an exclusive upper scan bound: for every user key k,
\* data_key(k) < data_end_key(e) if and only if e is empty or k < e.
C9_DataEndKeyBound ==
    enc_fn = "data_end_key" =>
        /\ in_user_key = <<>> => out = Ok(<<123>>)
        /\ in_user_key # <<>> => out = Ok(<<122>> \o in_user_key)
        /\ \A k \in UserKeys :
            KeyLess(data_key(k), Val(out))
                <=> (in_user_key = <<>> \/ UserKeyLess(k, in_user_key))

\* the end key of the last region: no upper bound
C9_Witness ==
    /\ enc_fn = "data_end_key"
    /\ in_user_key = <<>>
    /\ \A k \in UserKeys : KeyLess(data_key(k), Val(out))

\* C10: precondition violations abort.  enc_start_key(region) and
\* enc_end_key(region) abort exactly when the region has no peer and otherwise
\* return data_key(region.start_key) and data_end_key(region.end_key);
\* origin_key(key) aborts exactly when the key does not start with the data
\* prefix and otherwise returns the key without its first byte, so that
\* origin_key(data_key(k)) = k.  None of them returns an InvalidKey error.
C10_PreconditionsAbort ==
    /\ enc_fn = "enc_start_key" =>
        /\ IsPanic(out) <=> get_peers(in_region) = 0
        /\ ~IsPanic(out) => out = Ok(<<122>> \o get_start_key(in_region))
    /\ enc_fn = "enc_end_key" =>
        /\ IsPanic(out) <=> get_peers(in_region) = 0
        /\ ~IsPanic(out) =>
            out = Ok(IF get_end_key(in_region) = <<>>
                     THEN <<123>>
                     ELSE <<122>> \o get_end_key(in_region))
    /\ dec_fn = "origin_key" =>
        /\ IsPanic(ret) <=> (Len(key) = 0 \/ key[1] # 122)
        /\ ~IsPanic(ret) => ret = Ok(SubSeq(key, 2, Len(key)))
        /\ enc_fn = "data_key" => ret = Ok(in_user_key)

\* origin_key was called on a key that is no data key, and aborted
C10_Witness ==
    /\ enc_fn = "raft_state_key"
    /\ dec_fn = "origin_key"
    /\ IsPanic(ret)

----------------------------------------------------------------------------
(* Properties of the decoders, checked under SpecDecode *)

\* the key in the buffer is as the encoder returned it
Unedited == edits = 0 /\ IsOk(out) /\ key = Val(out)

\* k has the shape of a raft log key: 19 bytes, [0x01, 0x02] first, 0x01 at offset 10
RaftLogKeyShape(k) ==
    /\ Len(k) = 19
    /\ k[1] = 1
    /\ k[2] = 2
    /\ k[11] = 1

\* k has the shape of a region state key: 11 bytes, [0x01, 0x03] first, 0x01 last
RegionStateKeyShape(k) ==
    /\ Len(k) = 11
    /\ k[1] = 1
    /\ k[2] = 3
    /\ k[11] = 1

\* C2: raft-log round trip.  decode_raft_log_key(raft_log_key(id, idx)) succeeds
\* with exactly (id, idx) and raft_log_index(raft_log_key(id, idx)) succeeds with
\* exactly idx, for every region id and log index, 0 and u64::MAX included.
C2_RaftLogRoundTrip ==
    (enc_fn = "raft_log_key" /\ Unedited) =>
        /\ dec_fn = "decode_raft_log_key" => ret = Ok(<<in_region_id, in_log_index>>)
        /\ dec_fn = "raft_log_index" => ret = Ok(in_log_index)

\* a key whose id and index differ in every byte has been decoded back
C2_Witness ==
    /\ enc_fn = "raft_log_key"
    /\ Unedited
    /\ in_region_id = U64Of(258, 772, 1286, 1800)
    /\ in_log_index = U64Max
    /\ dec_fn = "decode_raft_log_key"
    /\ IsOk(ret)

\* C3: decode_raft_log_key fails with InvalidKey unless the key is exactly 19 bytes
\* long, starts with [0x01, 0x02] and has 0x01 at offset 10; it succeeds exactly on
\* the byte strings raft_log_key can produce; so it rejects raft_state_key(id),
\* raft_state_key(id) extended by 8 bytes and region_state_key(id) extended by
\* 8 bytes.
C3_DecodeRaftLogKeyStrict ==
    dec_fn = "decode_raft_log_key" =>
        /\ IsOk(ret) \/ IsErr(ret)
        /\ IsOk(ret) <=> RaftLogKeyShape(key)
        /\ IsOk(ret) <=>
            /\ Len(key) = 19
            /\ key = raft_log_key(read_u64_BigEndian(SubSeq(key, 3, 10)),
                                  read_u64_BigEndian(SubSeq(key, 12, 19)))
        /\ (\E r \in RegionIds : key = raft_state_key(r)) => IsErr(ret)
        /\ (Len(key) = 19 /\ \E r \in RegionIds : SubSeq(key, 1, 11) = raft_state_key(r))
            => IsErr(ret)
        /\ (Len(key) = 19 /\ \E r \in RegionIds : SubSeq(key, 1, 11) = region_state_key(r))
            => IsErr(ret)

\* a raft state key extended by 8 bytes has the length and the prefix of a log
\* key, and is rejected for its suffix byte
C3_Witness ==
    /\ enc_fn = "raft_state_key"
    /\ edits = 1
    /\ key = raft_state_key(in_region_id) \o write_u64_BigEndian(U64Of(0, 0, 0, 2))
    /\ dec_fn = "decode_raft_log_key"
    /\ IsErr(ret)

\* C4 as stated: every decode function accepts only a key with the exact length,
\* prefix bytes and suffix byte of its target entity (the raft log key for
\* decode_raft_log_key and raft_log_index, the region state key for
\* decode_region_meta_key).
C4_AllDecodersStrict ==
    /\ (dec_fn \in {"decode_raft_log_key", "raft_log_index"} /\ IsOk(ret))
        => RaftLogKeyShape(key)
    /\ (dec_fn = "decode_region_meta_key" /\ IsOk(ret))
        => RegionStateKeyShape(key)

\* C4 as amended: every decode function accepts only a key of the exact expected
\* length (19, 19 and 11 bytes); decode_raft_log_key accepts only the RegionRaft
\* prefix and the Log suffix byte, decode_region_meta_key only the RegionMeta
\* prefix, with any suffix byte; raft_log_index looks at neither.  A key that
\* deviates in what the function checks yields a failure, never a value.
C4_DecodersCheckedParts ==
    /\ dec_fn \in {"decode_raft_log_key", "raft_log_index", "decode_region_meta_key"}
        => (IsOk(ret) \/ IsErr(ret))
    /\ (dec_fn = "decode_raft_log_key" /\ IsOk(ret)) => RaftLogKeyShape(key)
    /\ (dec_fn = "raft_log_index" /\ IsOk(ret)) => Len(key) = 19
    /\ (dec_fn = "decode_region_meta_key" /\ IsOk(ret)) =>
        /\ Len(key) = 11
        /\ key[1] = 1
        /\ key[2] = 3

\* a region state key whose second prefix byte was overwritten with the RegionRaft
\* prefix is rejected by decode_region_meta_key
C4_Witness ==
    /\ enc_fn = "region_state_key"
    /\ edits = 1
    /\ Len(key) = 11
    /\ key[2] = 2
    /\ dec_fn = "decode_region_meta_key"
    /\ IsErr(ret)

\* C5: raft_log_index fails with InvalidKey if and only if the key is not exactly
\* 19 bytes long; for every 19-byte key, whatever its prefix bytes and suffix byte,
\* it returns the last 8 bytes read as a big-endian unsigned integer.
C5_RaftLogIndexLengthOnly ==
    dec_fn = "raft_log_index" =>
        /\ IsOk(ret) \/ IsErr(ret)
        /\ IsErr(ret) <=> Len(key) # 19
        /\ Len(key) = 19 =>
            /\ Len(Val(ret)) = 4
            /\ \A i \in 1..4 : Val(ret)[i] = key[10 + 2 * i] * 256 + key[11 + 2 * i]

\* raft_log_index returned a value for a 19-byte key that is no raft log key
C5_Witness ==
    /\ dec_fn = "raft_log_index"
    /\ Len(key) = 19
    /\ key[11] # 1
    /\ key[2] # 2
    /\ IsOk(ret)

\* C6: decode_region_meta_key fails with InvalidKey if and only if the key is not
\* exactly 11 bytes long or does not start with [0x01, 0x03]; otherwise it returns
\* bytes 2..10 as a big-endian region id and the raw last byte, whatever its
\* value, so that decode_region_meta_key(region_state_key(id)) is
\* (id, REGION_STATE_SUFFIX).
C6_DecodeRegionMetaKey ==
    dec_fn = "decode_region_meta_key" =>
        /\ IsOk(ret) \/ IsErr(ret)
        /\ IsErr(ret) <=> (Len(key) # 11 \/ key[1] # 1 \/ key[2] # 3)
        /\ IsOk(ret) =>
            /\ Len(Val(ret)) = 2
            /\ \A i \in 1..4 : Val(ret)[1][i] = key[1 + 2 * i] * 256 + key[2 + 2 * i]
            /\ Val(ret)[2] = key[11]
        /\ (enc_fn = "region_state_key" /\ Unedited) => ret = Ok(<<in_region_id, 1>>)

\* a region meta key with a suffix byte no encoder writes has been decoded
C6_Witness ==
    /\ enc_fn = "region_state_key"
    /\ in_region_id = U64Max
    /\ edits = 1
    /\ Len(key) = 11
    /\ key[11] = 255
    /\ dec_fn = "decode_region_meta_key"
    /\ ret = Ok(<<U64Max, 255>>)

====
